---- MODULE Spec2Model ----
(***************************************************************************)
(* A model of zipline/utils/memoize.py: weak_lru_cache (the bounded and    *)
(* the unbounded wrapper, cache_info, cache_clear) over _WeakKey,          *)
(* _WeakKeyDict and _WeakOrderedDict, with the death of weakly held key    *)
(* referents; lazyval and classlazyval over their WeakKeyDictionary.       *)
(***************************************************************************)
EXTENDS Integers, Sequences, FiniteSets, TLC

\* ------------------------------------------------------------- bounds
NThreads == 2       \* threads that use one wrapper
MaxSize == 2        \* largest maxsize a bounded wrapper is built with
MaxCalls == 3       \* hits + misses + calls in flight, two threads
MaxCallsSeq == 4    \* the same, a bounded wrapper used by one thread
MaxCallsUnb == 3    \* the same, an unbounded wrapper
MaxLazyOps == 4     \* reads, assignments and invalidations of the descriptor
MaxNested == 1      \* calls of the wrapper from inside user_function: depth, and
                    \* number per invocation

\* ------------------------------------------------------ the universe
Threads == 1..NThreads
Free == 0                       \* the lock when no thread holds it
Objects == {"o1", "o2"}         \* argument objects that accept weak references
Mortal == {"o1"}                \* those the program outside may let go of
Prims == {"p1", "p2"}           \* hashable arguments that refuse weak references
Unhashable == {"u1"}            \* arguments whose hash raises TypeError
None == "none"

\* o1 and o2 are distinct objects that compare equal (__eq__) and hash alike.
ObjValue(o) == IF o \in Objects THEN "A" ELSE o

\* The calls made: positional arguments and keyword arguments (name rank, value).
ArgSets ==
    [ a1 |-> [pos |-> <<"p1">>,       kw |-> {}],
      a2 |-> [pos |-> <<"p2">>,       kw |-> {}],
      b1 |-> [pos |-> <<"o1">>,       kw |-> {}],
      b2 |-> [pos |-> <<"o2">>,       kw |-> {}],
      c  |-> [pos |-> <<"o1", "o2">>, kw |-> {}],
      k  |-> [pos |-> <<>>,           kw |-> {<<1, "o1">>}],
      u  |-> [pos |-> <<"u1">>,       kw |-> {}] ]
ArgNames == DOMAIN ArgSets

VARIABLES
    bounded,    \* maxsize is not None
    maxsize,    \* the bound of a bounded wrapper
    nthr,       \* threads in use
    data,       \* cache.data: sequence of [key, value], least recent first
    hits,       \* hits[0]
    misses,     \* misses[0]
    lock,       \* the thread that holds lock, or Free
    pc,         \* each thread's place in wrapper, cache_info, cache_clear
    fr,         \* each thread's frame: its locals, and what the call has seen
    obj,        \* each object: "live" (referenced outside), "dropped", "dead"
    recency,    \* history: the stored keys by last access, oldest first
    fifo,       \* history: the stored keys by first insert (one thread)
    ninv,       \* history: invocations of user_function per argument set
    nret,       \* history: normal returns of user_function per argument set
    stack,      \* each thread's frames that wait in user_function for a
                \* call of the wrapper made from inside it
    lkind,      \* the descriptor: "lazyval" or "classlazyval"
    lcache,     \* self._cache.data: a set of [key, value]
    lpc,        \* each thread's place in __get__, __set__, __delitem__
    lfr,        \* each thread's frame in the descriptor
    lobj,       \* each instance: "live", "dropped", "dead"
    lcount,     \* history: invocations of self._get per argument
    lret,       \* history: normal returns of self._get per argument
    lops        \* operations on the descriptor so far

\* the state of the descriptor
lvars == <<lkind, lcache, lpc, lfr, lobj, lcount, lret, lops>>

\* the state of the wrapper
wvars == <<bounded, maxsize, data, hits, misses, lock, pc, fr, obj,
           recency, fifo, ninv, nret, stack>>

vars == <<bounded, maxsize, nthr, data, hits, misses, lock, pc, fr, obj,
          recency, fifo, ninv, nret, stack, lvars>>

\* ------------------------------------------------- keys (_WeakKey)
Item(kind, name, val) == [kind |-> kind, name |-> name, val |-> val]

RECURSIVE SortedItems(_)
\* sorted(kwds.items()): the (name, value) pairs by name
SortedItems(S) ==
    IF S = {} THEN <<>>
    ELSE LET m == CHOOSE x \in S : \A y \in S : x[1] <= y[1]
         IN  <<Item("pair", m[1], m[2])>> \o SortedItems(S \ {m})

\* key = args; if kwds: key += kwd_mark + tuple(sorted(kwds.items()))
MakeKey(a) ==
    LET args == ArgSets[a]
        posn == [i \in 1..Len(args.pos) |-> Item("val", 0, args.pos[i])]
    IN  IF args.kw = {} THEN posn
        ELSE posn \o <<Item("mark", 0, None)>> \o SortedItems(args.kw)

\* _WeakKey._try_ref: ref(item, callback), or the item when ref raises TypeError
TryRef(item) ==
    IF item.kind = "val" /\ item.val \in Objects
    THEN Item("ref", 0, item.val) ELSE item

\* _WeakKey(items): one piece per item
WeakKey(key) == [i \in 1..Len(key) |-> TryRef(key[i])]

\* the objects a call's frame holds (args, kwds, key)
ObjsOf(a) ==
    Objects \cap ({ArgSets[a].pos[i] : i \in 1..Len(ArgSets[a].pos)}
                  \cup {p[2] : p \in ArgSets[a].kw})

\* a hash that never raises
Hashable_Any(wk) == TRUE

\* hash(tuple(self)) raises TypeError
Hashable(wk) == \A i \in 1..Len(wk) : wk[i].val \notin Unhashable

\* equality of two pieces, the objects being as in ob: weakref.ref.__eq__
\* compares live referents with == and is identity of the ref objects
\* otherwise; a tuple compares its elements.
PieceEq(p, q, ob) ==
    /\ p.kind = q.kind
    /\ p.name = q.name
    /\ CASE p.kind = "ref"  -> ob[p.val] # "dead" /\ ob[q.val] # "dead"
                               /\ ObjValue(p.val) = ObjValue(q.val)
         [] p.kind = "pair" -> ObjValue(p.val) = ObjValue(q.val)
         [] OTHER           -> p.val = q.val

\* list.__eq__ of two _WeakKey
KeyEq(k1, k2, ob) ==
    /\ Len(k1) = Len(k2)
    /\ \A i \in 1..Len(k1) : PieceEq(k1[i], k2[i], ob)

\* the position in d of the entry with a key equal to wk, or 0
FindIn(d, wk, ob) ==
    IF \E i \in 1..Len(d) : KeyEq(d[i].key, wk, ob)
    THEN CHOOSE i \in 1..Len(d) : KeyEq(d[i].key, wk, ob)
    ELSE 0

Find(d, wk) == FindIn(d, wk, obj)

\* a lookup that finds no stored key
Lookup_Miss(d, key) == 0

\* _WeakKeyDict.__getitem__: self.data[_WeakKey(key)], 0 for KeyError
Lookup(d, key) == Find(d, WeakKey(key))

Remove(d, i) == [j \in 1..(Len(d) - 1) |-> IF j < i THEN d[j] ELSE d[j + 1]]

Entry(wk, v) == [key |-> wk, value |-> v]

\* an assignment that stores nothing
SetItem_Drop(d, key, v) == d

\* an assignment that leaves the value of a stored key as it is
SetItem_KeepFirst(d, key, v) ==
    IF Find(d, WeakKey(key)) = 0 THEN Append(d, Entry(WeakKey(key), v)) ELSE d

\* _WeakKeyDict.__setitem__: self.data[_WeakKey(key, self._remove)] = value.
\* An equal key that is stored keeps its key object and its place.
SetItem(d, key, v) ==
    LET wk == WeakKey(key)
        i  == Find(d, wk)
    IN  IF i = 0 THEN Append(d, Entry(wk, v))
        ELSE [d EXCEPT ![i].value = v]

\* a renewal that leaves the entry in its place
MoveToEnd_Stay(d, key) == d

\* _WeakOrderedDict.move_to_end: self[key] = self.pop(key)
MoveToEnd(d, key) ==
    LET i == Find(d, WeakKey(key))
    IN  SetItem(Remove(d, i), key, d[i].value)

\* a popitem that takes the entry stored last
PopItem_Last(d) == SubSeq(d, 1, Len(d) - 1)

\* _WeakOrderedDict.popitem(False): self.data.popitem(last=False)
PopItem(d) == Tail(d)

\* --------------------------------------------------------- history
RemoveKey(q, wk) == SelectSeq(q, LAMBDA x : x # wk)

\* the key stored for wk is accessed: it is the most recent one
Touch(q, wk) == Append(RemoveKey(q, wk), wk)

ReplaceKey(q, old, new) == [i \in 1..Len(q) |-> IF q[i] = old THEN new ELSE q[i]]

\* the history one thread keeps; several threads keep none
Seq1(q) == IF nthr = 1 THEN q ELSE <<>>

Bump(f, a) == [f EXCEPT ![a] = IF @ < 2 THEN @ + 1 ELSE @]

Zero == [a \in ArgNames |-> 0]

RECURSIVE Sum(_, _)
Sum(f, S) == IF S = {} THEN 0 ELSE LET x == CHOOSE y \in S : TRUE
                                   IN  f[x] + Sum(f, S \ {x})

\* -------------------------------------- lazyval, classlazyval: owners
\* i1 and i2 are instances of class C that compare equal and hash alike; i3
\* is an instance of D, a subclass of C that does not override the accessor.
Instances == {"i1", "i2", "i3"}
Classes == {"C", "D"}
ClassOf == [i1 |-> "C", i2 |-> "C", i3 |-> "D"]
MortalInstances == {"i1"}
Owners == Instances \cup Classes

\* __eq__ and __hash__ of an owner: classes compare by identity
OwnerValue(x) == IF x \in {"i1", "i2"} THEN "A" ELSE x

\* the value an assignment tries to store
Assigned == "not_val"

\* a classlazyval that looks up the instance it is read through
LKey_Instance(x) == x

\* the owner __get__ looks up through x: lazyval uses the instance,
\* classlazyval calls lazyval.__get__(owner, owner) with the class
LKey(x) ==
    IF lkind = "classlazyval" /\ x \in Instances THEN ClassOf[x] ELSE x

\* equality of ref(k1) and ref(k2) in a WeakKeyDictionary: the referents are
\* compared with == while both live
LKeyEq(k1, k2, ob) ==
    IF k1 \in Instances /\ k2 \in Instances
    THEN IF ob[k1] # "dead" /\ ob[k2] # "dead"
         THEN OwnerValue(k1) = OwnerValue(k2) ELSE k1 = k2
    ELSE k1 = k2

\* the entries of c whose key equals ref(k)
LFind(c, k, ob) == {e \in c : LKeyEq(e.key, k, ob)}

\* an assignment that leaves the value of a stored key as it is
LSetItem_KeepFirst(c, k, v) ==
    IF LFind(c, k, lobj) = {} THEN c \cup {[key |-> k, value |-> v]} ELSE c

\* WeakKeyDictionary.__setitem__: self.data[ref(key, self._remove)] = value;
\* an equal key that is stored keeps its key object
LSetItem(c, k, v) ==
    IF LFind(c, k, lobj) = {}
    THEN c \cup {[key |-> k, value |-> v]}
    ELSE {IF e \in LFind(c, k, lobj) THEN [e EXCEPT !.value = v] ELSE e : e \in c}

\* what self._get(k) returns to thread t
LResult(k, t) == <<k, t>>

LZero == [x \in Owners |-> 0]

LEmptyFrame ==
    [op |-> None, owner |-> None, key |-> None, val |-> None, out |-> None,
     inv |-> 0, rem |-> None, repl |-> FALSE]

\* the descriptor after lazyval.__init__
LazyStart ==
    /\ lcache = {}
    /\ lpc = [t \in Threads |-> "idle"]
    /\ lfr = [t \in Threads |-> LEmptyFrame]
    /\ lobj = [i \in Instances |-> "live"]
    /\ lcount = LZero
    /\ lret = LZero
    /\ lops = 0

\* ------------------------------------------------------------ Init
EmptyFrame ==
    [args |-> None, res |-> 0, tmp |-> 0,
     \* what the call has seen (kept by one thread only)
     h0 |-> 0, m0 |-> 0, stored0 |-> FALSE, val0 |-> 0, inv |-> 0,
     key0 |-> <<>>, last0 |-> <<>>, nest |-> 0,
     died |-> FALSE, out |-> None,
     evn |-> 0, evk |-> <<>>, lru |-> <<>>, first |-> <<>>,
     \* what the insert did, until the lock is released
     repl |-> FALSE, old |-> 0, mprev |-> 0,
     \* the tuple cache_info returns
     snap |-> <<0, 0, 0>>, mid |-> FALSE]

\* what user_function returns to thread t: results are told apart by the
\* thread that computed them
Result(t) == t

\* the wrapper after decorating_function
WrapperStart ==
    /\ data = <<>>
    /\ hits = 0
    /\ misses = 0
    /\ lock = Free
    /\ pc = [t \in Threads |-> "idle"]
    /\ fr = [t \in Threads |-> EmptyFrame]
    /\ obj = [o \in Objects |-> "live"]
    /\ recency = <<>>
    /\ fifo = <<>>
    /\ ninv = Zero
    /\ nret = Zero
    /\ stack = [t \in Threads |-> <<>>]

Init ==
    /\ bounded \in BOOLEAN
    /\ maxsize \in 1..MaxSize
    /\ (~bounded => maxsize = 1)
    /\ nthr \in 1..NThreads
    /\ (~bounded => nthr = 1)
    /\ WrapperStart
    /\ lkind = "lazyval"
    /\ LazyStart

Goto(t, p) == pc' = [pc EXCEPT ![t] = p]

\* a with block that keeps the lock when it is left
Unlock_Forget == UNCHANGED lock

\* leaving a `with lock` block
Unlock == lock' = Free

\* the call returns or raises (out); one thread stays at `return`, with what
\* the call has seen, until Done
Return(t, f, out) ==
    IF nthr = 1
    THEN /\ pc' = [pc EXCEPT ![t] = "ret"]
         /\ fr' = [fr EXCEPT ![t] = [f EXCEPT !.out = out]]
    ELSE /\ pc' = [pc EXCEPT ![t] = "idle"]
         /\ fr' = [fr EXCEPT ![t] = EmptyFrame]

Done(t) ==
    /\ pc[t] = "ret"
    /\ pc' = [pc EXCEPT ![t] = "idle"]
    /\ fr' = [fr EXCEPT ![t] = EmptyFrame]
    /\ UNCHANGED <<lvars, stack, bounded, maxsize, nthr, data, hits, misses, lock, obj,
                   recency, fifo, ninv, nret>>

\* ------------------------------------------------------ the wrapper
\* calls that have not returned
InFlight ==
    Cardinality({t \in Threads :
        pc[t] \in {"get", "renew", "hit", "compute", "set", "miss", "check",
                   "evict", "u_get", "u_hit", "u_set", "u_miss"}})

\* the counters and the recorded invocations are capped: no call starts at
\* the cap; each thread beyond two takes one call off it
CallCap ==
    IF ~bounded THEN MaxCallsUnb
    ELSE IF nthr = 1 THEN MaxCallsSeq ELSE MaxCalls + 2 - nthr

Stored(wk) == Hashable(wk) /\ Find(data, wk) # 0

\* wrapper(*args, **kwds), lines 143-147 (122-126 unbounded): the key is
\* built and the caller holds the arguments; the bounded wrapper enters
\* `with lock`. Idle threads are alike: the lowest one makes the call.
Call(t, a) ==
    /\ t <= nthr
    /\ pc[t] = "idle"
    /\ \A s \in 1..(t - 1) : pc[s] # "idle"
    /\ hits + misses + InFlight < CallCap
    /\ Sum(ninv, ArgNames) < CallCap
    /\ \A o \in ObjsOf(a) : obj[o] = "live"
    /\ LET wk == WeakKey(MakeKey(a))
       IN  fr' = [fr EXCEPT ![t] =
                IF nthr = 1
                THEN [EmptyFrame EXCEPT
                        !.args = a, !.h0 = hits, !.m0 = misses,
                        !.stored0 = Stored(wk),
                        !.val0 = IF Stored(wk) THEN data[Find(data, wk)].value ELSE 0,
                        !.key0 = IF Stored(wk) THEN data[Find(data, wk)].key ELSE <<>>,
                        !.last0 = IF recency = <<>> THEN <<>>
                                  ELSE recency[Len(recency)]]
                ELSE [EmptyFrame EXCEPT !.args = a]]
    /\ IF bounded
       THEN /\ lock = Free
            /\ lock' = t
            /\ Goto(t, "get")
       ELSE /\ Goto(t, "u_get")
            /\ UNCHANGED lock
    /\ UNCHANGED <<lvars, stack, bounded, maxsize, nthr, data, hits, misses, obj,
                   recency, fifo, ninv, nret>>

\* a lookup whose miss goes on to user_function inside the with block
GetItem_HoldsLock(t) ==
    /\ pc[t] = "get"
    /\ LET key == MakeKey(fr[t].args)
       IN  IF ~Hashable(WeakKey(key))
           THEN /\ Unlock
                /\ Return(t, fr[t], "typeerror")
           ELSE IF Lookup(data, key) = 0
           THEN /\ Goto(t, "compute")
                /\ UNCHANGED <<fr, lock>>
           ELSE /\ fr' = [fr EXCEPT ![t].res = data[Lookup(data, key)].value]
                /\ Goto(t, "renew")
                /\ UNCHANGED lock
    /\ UNCHANGED <<lvars, stack, bounded, maxsize, nthr, data, hits, misses, obj,
                   recency, fifo, ninv, nret>>

\* bounded, line 149: result = cache[key]; TypeError leaves the with block,
\* KeyError is passed and leaves it too
GetItem(t) ==
    /\ pc[t] = "get"
    /\ LET key == MakeKey(fr[t].args)
       IN  IF ~Hashable(WeakKey(key))
           THEN /\ Unlock
                /\ Return(t, fr[t], "typeerror")
           ELSE IF Lookup(data, key) = 0
           THEN /\ Unlock
                /\ Goto(t, "compute")
                /\ UNCHANGED fr
           ELSE /\ fr' = [fr EXCEPT ![t].res = data[Lookup(data, key)].value]
                /\ Goto(t, "renew")
                /\ UNCHANGED lock
    /\ UNCHANGED <<lvars, stack, bounded, maxsize, nthr, data, hits, misses, obj,
                   recency, fifo, ninv, nret>>

\* bounded, line 150: cache_renew(key); the KeyError of pop is passed
Renew(t) ==
    /\ pc[t] = "renew"
    /\ LET key == MakeKey(fr[t].args)
           i   == Find(data, WeakKey(key))
       IN  IF i = 0
           THEN /\ Unlock
                /\ Goto(t, "compute")
                /\ UNCHANGED <<data, recency, fifo>>
           ELSE /\ data' = MoveToEnd(data, key)
                /\ recency' = Touch(RemoveKey(recency, data[i].key), WeakKey(key))
                /\ fifo' = Seq1(ReplaceKey(fifo, data[i].key, WeakKey(key)))
                /\ Goto(t, "hit")
                /\ UNCHANGED lock
    /\ UNCHANGED <<lvars, stack, bounded, maxsize, nthr, hits, misses, fr, obj, ninv, nret>>

\* bounded, lines 151-152: hits[0] += 1; return result
Hit(t) ==
    /\ pc[t] = "hit"
    /\ hits' = hits + 1
    /\ Unlock
    /\ Return(t, fr[t], "hit")
    /\ UNCHANGED <<lvars, stack, bounded, maxsize, nthr, data, misses, obj,
                   recency, fifo, ninv, nret>>

\* a wrapper that counts a miss for the call whose user_function raises
Compute_CountsFailure(t) ==
    /\ pc[t] = "compute"
    /\ LET a == fr[t].args
           f == IF nthr = 1 THEN [fr[t] EXCEPT !.inv = @ + 1] ELSE fr[t]
       IN  /\ ninv' = IF bounded THEN ninv ELSE Bump(ninv, a)
           /\ \/ /\ fr' = [fr EXCEPT ![t] = [f EXCEPT !.res = Result(t)]]
                 /\ nret' = IF bounded THEN nret ELSE Bump(nret, a)
                 /\ IF bounded
                    THEN /\ lock = Free
                         /\ lock' = t
                         /\ Goto(t, "set")
                    ELSE /\ Goto(t, "u_set")
                         /\ UNCHANGED lock
                 /\ UNCHANGED misses
              \/ /\ Return(t, f, "raise")
                 /\ misses' = misses + 1
                 /\ UNCHANGED <<lock, nret>>
    /\ UNCHANGED <<lvars, stack, bounded, maxsize, nthr, data, hits, obj, recency, fifo>>

\* lines 133 and 155-156: result = user_function(*args, **kwds), which
\* raises or returns; the bounded wrapper then enters `with lock`
Compute(t) ==
    /\ pc[t] = "compute"
    /\ LET a == fr[t].args
           f == IF nthr = 1 THEN [fr[t] EXCEPT !.inv = @ + 1] ELSE fr[t]
       IN  /\ ninv' = IF bounded THEN ninv ELSE Bump(ninv, a)
           /\ \/ /\ fr' = [fr EXCEPT ![t] = [f EXCEPT !.res = Result(t)]]
                 /\ nret' = IF bounded THEN nret ELSE Bump(nret, a)
                 /\ IF bounded
                    THEN /\ lock = Free
                         /\ lock' = t
                         /\ Goto(t, "set")
                    ELSE /\ Goto(t, "u_set")
                         /\ UNCHANGED lock
              \/ /\ Return(t, f, "raise")
                 /\ UNCHANGED <<lock, nret>>
    /\ UNCHANGED <<lvars, stack, bounded, maxsize, nthr, data, hits, misses, obj, recency, fifo>>

\* the history of cache[key] = result
InsertHistory(key) ==
    LET wk == WeakKey(key)
        i  == Find(data, wk)
    IN  /\ recency' = IF i = 0 THEN Append(recency, wk) ELSE Touch(recency, data[i].key)
        /\ fifo' = IF i = 0 THEN Seq1(Append(fifo, wk)) ELSE fifo

\* bounded, line 157: cache[key] = result
Insert(t) ==
    /\ pc[t] = "set"
    /\ LET key == MakeKey(fr[t].args)
           i   == Find(data, WeakKey(key))
       IN  /\ data' = SetItem(data, key, fr[t].res)
           /\ InsertHistory(key)
           /\ fr' = [fr EXCEPT ![t].repl = (i # 0),
                                ![t].old = IF i # 0 THEN data[i].value ELSE 0,
                                ![t].mprev = misses]
    /\ Goto(t, "miss")
    /\ UNCHANGED <<lvars, stack, bounded, maxsize, nthr, hits, misses, lock, obj, ninv, nret>>

\* bounded, line 158: misses[0] += 1
Miss(t) ==
    /\ pc[t] = "miss"
    /\ misses' = misses + 1
    /\ Goto(t, "check")
    /\ UNCHANGED <<lvars, stack, bounded, maxsize, nthr, data, hits, lock, fr, obj,
                   recency, fifo, ninv, nret>>

\* an overflow test that is late by one
Overflow_Late == Len(data) > maxsize + 1

\* line 159: len(cache) > maxsize
Overflow == Len(data) > maxsize

\* bounded, line 159: if len(cache) > maxsize
Check(t) ==
    /\ pc[t] = "check"
    /\ IF Overflow
       THEN /\ Goto(t, "evict")
            /\ UNCHANGED <<lock, fr>>
       ELSE /\ Unlock
            /\ Return(t, fr[t], "miss")
    /\ UNCHANGED <<lvars, stack, bounded, maxsize, nthr, data, hits, misses, obj,
                   recency, fifo, ninv, nret>>

\* bounded, lines 161-162: cache_popitem(False); return result
Evict(t) ==
    /\ pc[t] = "evict"
    /\ data' = PopItem(data)
    /\ recency' = RemoveKey(recency, Head(data).key)
    /\ fifo' = RemoveKey(fifo, Head(data).key)
    /\ Unlock
    /\ Return(t, [fr[t] EXCEPT !.evn = Len(data) - Len(PopItem(data)),
                               !.evk = Head(data).key, !.lru = Head(recency),
                               !.first = Head(fifo)], "miss")
    /\ UNCHANGED <<lvars, stack, bounded, maxsize, nthr, hits, misses, obj, ninv, nret>>

\* unbounded, line 128: result = cache[key]
UGetItem(t) ==
    /\ pc[t] = "u_get"
    /\ LET key == MakeKey(fr[t].args)
       IN  IF ~Hashable(WeakKey(key))
           THEN Return(t, fr[t], "typeerror")
           ELSE IF Lookup(data, key) = 0
           THEN /\ Goto(t, "compute")
                /\ UNCHANGED fr
           ELSE /\ fr' = [fr EXCEPT ![t].res = data[Lookup(data, key)].value,
                                    ![t].tmp = hits]
                /\ Goto(t, "u_hit")
    /\ UNCHANGED <<lvars, stack, bounded, maxsize, nthr, data, hits, misses, lock, obj,
                   recency, fifo, ninv, nret>>

\* unbounded, lines 129-130: hits[0] += 1 (the value read is stored back
\* plus one, with no lock); return result
UHit(t) ==
    /\ pc[t] = "u_hit"
    /\ hits' = fr[t].tmp + 1
    /\ Return(t, fr[t], "hit")
    /\ UNCHANGED <<lvars, stack, bounded, maxsize, nthr, data, misses, lock, obj,
                   recency, fifo, ninv, nret>>

\* unbounded, line 134: cache[key] = result
UInsert(t) ==
    /\ pc[t] = "u_set"
    /\ data' = SetItem(data, MakeKey(fr[t].args), fr[t].res)
    /\ fr' = [fr EXCEPT ![t].tmp = misses]
    /\ Goto(t, "u_miss")
    /\ UNCHANGED <<lvars, stack, bounded, maxsize, nthr, hits, misses, lock, obj,
                   recency, fifo, ninv, nret>>

\* unbounded, lines 135-136: misses[0] += 1; return result
UMiss(t) ==
    /\ pc[t] = "u_miss"
    /\ misses' = fr[t].tmp + 1
    /\ Return(t, fr[t], "miss")
    /\ UNCHANGED <<lvars, stack, bounded, maxsize, nthr, data, hits, lock, obj,
                   recency, fifo, ninv, nret>>

\* ------------------------------------------ cache_info, cache_clear
\* a cache_info that reads without the lock
InfoAcquire_NoLock(t) ==
    /\ t <= nthr
    /\ pc[t] = "idle"
    /\ Goto(t, "info")
    /\ UNCHANGED <<lvars, stack, bounded, maxsize, nthr, data, hits, misses, lock, fr, obj,
                   recency, fifo, ninv, nret>>

\* line 166: with lock
InfoAcquire(t) ==
    /\ t <= nthr
    /\ pc[t] = "idle"
    /\ lock = Free
    /\ lock' = t
    /\ Goto(t, "info")
    /\ UNCHANGED <<lvars, stack, bounded, maxsize, nthr, data, hits, misses, fr, obj,
                   recency, fifo, ninv, nret>>

\* a thread is between cache.clear() and the reset of the counters
MidClear == \E s \in Threads : pc[s] = "reset"

\* line 167: (hits[0], misses[0], maxsize, len(cache))
InfoRead(t) ==
    /\ pc[t] = "info"
    /\ fr' = [fr EXCEPT ![t].snap = <<hits, misses, Len(data)>>, ![t].mid = MidClear]
    /\ Goto(t, "info_ret")
    /\ UNCHANGED <<lvars, stack, bounded, maxsize, nthr, data, hits, misses, lock, obj,
                   recency, fifo, ninv, nret>>

\* line 167: return, leaving the with block
InfoReturn(t) ==
    /\ pc[t] = "info_ret"
    /\ Unlock
    /\ pc' = [pc EXCEPT ![t] = "idle"]
    /\ fr' = [fr EXCEPT ![t] = EmptyFrame]
    /\ UNCHANGED <<lvars, stack, bounded, maxsize, nthr, data, hits, misses, obj,
                   recency, fifo, ninv, nret>>

\* lines 171-172: with lock: cache.clear()
ClearEntries(t) ==
    /\ t <= nthr
    /\ pc[t] = "idle"
    /\ lock = Free
    /\ lock' = t
    /\ data' = <<>>
    /\ recency' = <<>>
    /\ fifo' = <<>>
    /\ ninv' = Zero
    /\ nret' = Zero
    /\ Goto(t, "reset")
    /\ UNCHANGED <<lvars, stack, bounded, maxsize, nthr, hits, misses, fr, obj>>

\* lines 171-172 on an unbounded wrapper whose cache.clear() is that of
\* MutableMapping, a loop of WeakKeyDictionary.popitem: the entry stored
\* last is popped, its key, a _WeakKey, is called and TypeError leaves the
\* with block (where clear is self.data.clear(), ClearEntries is all)
ClearRaises(t) ==
    /\ t <= nthr
    /\ pc[t] = "idle"
    /\ lock = Free
    /\ ~bounded
    /\ data # <<>>
    /\ data' = SubSeq(data, 1, Len(data) - 1)
    /\ ninv' = Zero
    /\ nret' = Zero
    /\ UNCHANGED <<lvars, stack, bounded, maxsize, nthr, hits, misses, lock, pc, fr,
                   obj, recency, fifo>>

\* line 173: hits[0] = misses[0] = 0
ClearReset(t) ==
    /\ pc[t] = "reset"
    /\ hits' = 0
    /\ misses' = 0
    /\ Unlock
    /\ Goto(t, "idle")
    /\ UNCHANGED <<lvars, stack, bounded, maxsize, nthr, data, fr, obj, recency, fifo, ninv, nret>>

\* ------------------------------------------------- the key referents
Held(o) ==
    \E t \in Threads :
        \/ fr[t].args # None /\ o \in ObjsOf(fr[t].args)
        \/ \E i \in 1..Len(stack[t]) : o \in ObjsOf(stack[t][i].args)

\* a stored key holds o in a piece that is no weak reference
StrongInCache(o) ==
    \E i \in 1..Len(data) : \E j \in 1..Len(data[i].key) :
        data[i].key[j].kind # "ref" /\ data[i].key[j].val = o

HasRef(wk, o) == \E j \in 1..Len(wk) : wk[j].kind = "ref" /\ wk[j].val = o

\* the program outside the cache drops its last reference to o
DropRef(o) ==
    /\ o \in Mortal
    /\ obj[o] = "live"
    /\ obj' = [obj EXCEPT ![o] = "dropped"]
    /\ UNCHANGED <<lvars, stack, bounded, maxsize, nthr, data, hits, misses, lock, pc, fr,
                   recency, fifo, ninv, nret>>

\* callbacks that delete an entry only when no referent of its key is left
Removed_AllDead(wk, o) ==
    /\ HasRef(wk, o)
    /\ \A j \in 1..Len(wk) :
          wk[j].kind = "ref" => (wk[j].val = o \/ obj[wk[j].val] = "dead")

\* the entries the callbacks of o's weak references delete
\* (_WeakKey.remove, lines 184-187, with dict_remove of line 218)
Removed(wk, o) == HasRef(wk, o)

\* o is unreachable: its weak references are cleared and their callbacks run
Die(o) ==
    /\ obj[o] = "dropped"
    /\ ~Held(o)
    /\ ~StrongInCache(o)
    /\ obj' = [obj EXCEPT ![o] = "dead"]
    /\ data' = SelectSeq(data, LAMBDA e : ~Removed(e.key, o))
    /\ recency' = SelectSeq(recency, LAMBDA x : ~Removed(x, o))
    /\ fifo' = SelectSeq(fifo, LAMBDA x : ~Removed(x, o))
    /\ ninv' = Zero
    /\ nret' = Zero
    /\ fr' = [t \in Threads |->
                IF nthr = 1 /\ fr[t].args # None
                THEN [fr[t] EXCEPT !.died = TRUE] ELSE fr[t]]
    /\ UNCHANGED <<lvars, stack, bounded, maxsize, nthr, hits, misses, lock, pc>>

Next ==
    \/ \E t \in Threads : \E a \in ArgNames : Call(t, a)
    \/ \E t \in Threads : GetItem(t)
    \/ \E t \in Threads : Renew(t)
    \/ \E t \in Threads : Hit(t)
    \/ \E t \in Threads : Compute(t)
    \/ \E t \in Threads : Insert(t)
    \/ \E t \in Threads : Miss(t)
    \/ \E t \in Threads : Check(t)
    \/ \E t \in Threads : Evict(t)
    \/ \E t \in Threads : UGetItem(t)
    \/ \E t \in Threads : UHit(t)
    \/ \E t \in Threads : UInsert(t)
    \/ \E t \in Threads : UMiss(t)
    \/ \E t \in Threads : Done(t)
    \/ \E t \in Threads : InfoAcquire(t)
    \/ \E t \in Threads : InfoRead(t)
    \/ \E t \in Threads : InfoReturn(t)
    \/ \E t \in Threads : ClearEntries(t)
    \/ \E t \in Threads : ClearRaises(t)
    \/ \E t \in Threads : ClearReset(t)
    \/ \E o \in Objects : DropRef(o)
    \/ \E o \in Objects : Die(o)

Spec == Init /\ [][Next]_vars

\* -------------------------------------- lazyval, classlazyval: steps
\* no operation starts at this cap; each thread beyond two takes two
\* operations off it
LazyCap == IF nthr = 1 THEN MaxLazyOps ELSE MaxLazyOps + 4 - 2 * nthr

\* operations start while fewer than LazyCap were made; idle threads are
\* alike: the lowest one starts
LStart(t) ==
    /\ t <= nthr
    /\ lpc[t] = "idle"
    /\ \A s \in 1..(t - 1) : lpc[s] # "idle"
    /\ lops < LazyCap
    /\ lops' = lops + 1

LHeld(i) == \E t \in Threads : lfr[t].owner = i

\* lines 45-50 (86-87): x.val; the descriptor itself when a lazyval is read
\* through the class, the cached value when self._cache[instance] finds one
LRead(t, x) ==
    /\ LStart(t)
    /\ x \in Instances => lobj[x] = "live"
    /\ LET k == LKey(x)
           f == [LEmptyFrame EXCEPT !.op = "get", !.owner = x, !.key = k]
           found == LFind(lcache, k, lobj)
       IN  IF lkind = "lazyval" /\ x \in Classes
           THEN /\ lfr' = [lfr EXCEPT ![t] = [f EXCEPT !.out = "descriptor"]]
                /\ lpc' = [lpc EXCEPT ![t] = "l_ret"]
           ELSE IF found # {}
           THEN /\ lfr' = [lfr EXCEPT ![t] =
                        [f EXCEPT !.out = "value",
                                  !.val = (CHOOSE e \in found : TRUE).value]]
                /\ lpc' = [lpc EXCEPT ![t] = "l_ret"]
           ELSE /\ lfr' = [lfr EXCEPT ![t] = f]
                /\ lpc' = [lpc EXCEPT ![t] = "l_compute"]
    /\ UNCHANGED <<wvars, nthr, lkind, lcache, lobj, lcount, lret>>

\* line 51: self._get(instance), which returns or raises
LCompute(t) ==
    /\ lpc[t] = "l_compute"
    /\ LET k == lfr[t].key
       IN  /\ lcount' = [lcount EXCEPT ![k] = IF @ < 2 THEN @ + 1 ELSE @]
           /\ \/ /\ lfr' = [lfr EXCEPT ![t].val = LResult(k, t), ![t].inv = 1]
                 /\ lret' = [lret EXCEPT ![k] = IF @ < 2 THEN @ + 1 ELSE @]
                 /\ lpc' = [lpc EXCEPT ![t] = "l_set"]
              \/ /\ lfr' = [lfr EXCEPT ![t].out = "raise", ![t].inv = 1]
                 /\ lpc' = [lpc EXCEPT ![t] = "l_ret"]
                 /\ UNCHANGED lret
    /\ UNCHANGED <<wvars, nthr, lkind, lcache, lobj, lops>>

\* lines 51-52: self._cache[instance] = val; return val
LStore(t) ==
    /\ lpc[t] = "l_set"
    /\ lcache' = LSetItem(lcache, lfr[t].key, lfr[t].val)
    /\ lfr' = [lfr EXCEPT ![t].out = "value",
                          ![t].repl = (LFind(lcache, lfr[t].key, lobj) # {})]
    /\ lpc' = [lpc EXCEPT ![t] = "l_ret"]
    /\ UNCHANGED <<wvars, nthr, lkind, lobj, lcount, lret, lops>>

\* a __set__ that stores the assigned value
LAssign_Writes(t, x) ==
    /\ LStart(t)
    /\ x \in Instances
    /\ lobj[x] = "live"
    /\ lcache' = LSetItem(lcache, LKey(x), Assigned)
    /\ lfr' = [lfr EXCEPT ![t] =
            [LEmptyFrame EXCEPT !.op = "set", !.owner = x, !.key = LKey(x),
                                !.val = Assigned, !.out = "stored"]]
    /\ lpc' = [lpc EXCEPT ![t] = "l_ret"]
    /\ UNCHANGED <<wvars, nthr, lkind, lobj, lcount, lret>>

\* lines 54-55: x.val = value raises AttributeError
LAssign(t, x) ==
    /\ LStart(t)
    /\ x \in Instances
    /\ lobj[x] = "live"
    /\ lfr' = [lfr EXCEPT ![t] =
            [LEmptyFrame EXCEPT !.op = "set", !.owner = x, !.key = LKey(x),
                                !.val = Assigned, !.out = "attributeerror"]]
    /\ lpc' = [lpc EXCEPT ![t] = "l_ret"]
    /\ UNCHANGED <<wvars, nthr, lkind, lcache, lobj, lcount, lret>>

\* lines 57-58: del descriptor[x]: del self._cache[instance], or KeyError
LDelete(t, x) ==
    /\ LStart(t)
    /\ x \in (IF lkind = "lazyval" THEN Instances ELSE Classes)
    /\ x \in Instances => lobj[x] = "live"
    /\ LET found == LFind(lcache, x, lobj)
           f == [LEmptyFrame EXCEPT !.op = "del", !.owner = x, !.key = x]
       IN  IF found = {}
           THEN /\ lfr' = [lfr EXCEPT ![t] = [f EXCEPT !.out = "keyerror"]]
                /\ UNCHANGED <<lcache, lcount, lret>>
           ELSE /\ lfr' = [lfr EXCEPT ![t] =
                        [f EXCEPT !.out = "deleted",
                                  !.rem = (CHOOSE e \in found : TRUE).key]]
                /\ lcache' = lcache \ found
                /\ lcount' = [y \in Owners |->
                        IF LKeyEq(y, x, lobj) THEN 0 ELSE lcount[y]]
                /\ lret' = [y \in Owners |->
                        IF LKeyEq(y, x, lobj) THEN 0 ELSE lret[y]]
    /\ lpc' = [lpc EXCEPT ![t] = "l_ret"]
    /\ UNCHANGED <<wvars, nthr, lkind, lobj>>

\* the operation returns to its caller
LDone(t) ==
    /\ lpc[t] = "l_ret"
    /\ lpc' = [lpc EXCEPT ![t] = "idle"]
    /\ lfr' = [lfr EXCEPT ![t] = LEmptyFrame]
    /\ UNCHANGED <<wvars, nthr, lkind, lcache, lobj, lcount, lret, lops>>

\* the program outside drops its last reference to instance i
LDropRef(i) ==
    /\ i \in MortalInstances
    /\ lobj[i] = "live"
    /\ lobj' = [lobj EXCEPT ![i] = "dropped"]
    /\ UNCHANGED <<wvars, nthr, lkind, lcache, lpc, lfr, lcount, lret, lops>>

\* instance i is unreachable: the callback of its weak reference deletes the
\* entry it keys (WeakKeyDictionary of line 43)
LDie(i) ==
    /\ lobj[i] = "dropped"
    /\ ~LHeld(i)
    /\ lobj' = [lobj EXCEPT ![i] = "dead"]
    /\ lcache' = {e \in lcache : e.key # i}
    /\ lcount' = [lcount EXCEPT ![i] = 0]
    /\ lret' = [lret EXCEPT ![i] = 0]
    /\ UNCHANGED <<wvars, nthr, lkind, lpc, lfr, lops>>

InitLazy ==
    /\ bounded = FALSE
    /\ maxsize = 1
    /\ nthr \in 1..NThreads
    /\ WrapperStart
    /\ lkind \in {"lazyval", "classlazyval"}
    /\ LazyStart

NextLazy ==
    \/ \E t \in Threads : \E x \in Owners : LRead(t, x)
    \/ \E t \in Threads : LCompute(t)
    \/ \E t \in Threads : LStore(t)
    \/ \E t \in Threads : \E x \in Owners : LAssign(t, x)
    \/ \E t \in Threads : \E x \in Owners : LDelete(t, x)
    \/ \E t \in Threads : LDone(t)
    \/ \E i \in Instances : LDropRef(i)
    \/ \E i \in Instances : LDie(i)

SpecLazy == InitLazy /\ [][NextLazy]_vars

\* ------------------------------- the bounded wrapper, waits for the lock
\* The steps below keep a thread that has reached a `with lock` line apart
\* from the thread that has entered the block, and let user_function call
\* the wrapper it is wrapped by.

\* argument sets of the calls
LiveArgs == {"a1", "a2", "u"}

\* where a thread waits for the lock, and where it is once it has it
Waiting == [enter |-> "get", acquire |-> "set", info_enter |-> "info",
            clear_enter |-> "clear"]

\* calls that have not returned, those waiting in user_function included
LiveCalls ==
    Cardinality({t \in Threads :
        pc[t] \in {"enter", "get", "renew", "hit", "compute", "acquire",
                   "set", "miss", "check", "evict"}})
    + Sum([t \in Threads |-> Len(stack[t])], Threads)

\* no call starts at this cap of the counters and the calls under way; the
\* waits for the lock take one call off the cap of the calls above
LiveCap == CallCap - 1

\* lines 143-146: wrapper(*args, **kwds) builds the key and reaches
\* `with lock`
Enter(t, a) ==
    /\ t <= nthr
    /\ pc[t] = "idle"
    /\ stack[t] = <<>>
    /\ hits + misses + LiveCalls < LiveCap
    /\ fr' = [fr EXCEPT ![t] = [EmptyFrame EXCEPT !.args = a]]
    /\ Goto(t, "enter")
    /\ UNCHANGED <<lvars, stack, bounded, maxsize, nthr, data, hits, misses,
                   lock, obj, recency, fifo, ninv, nret>>

\* line 155 where user_function calls the wrapper: the frame of the call
\* that is computing waits, the new call reaches `with lock` of line 147
Recurse(t, a) ==
    /\ pc[t] = "compute"
    /\ fr[t].nest < MaxNested
    /\ Len(stack[t]) < MaxNested
    /\ hits + misses + LiveCalls < LiveCap
    /\ stack' = [stack EXCEPT ![t] = <<[fr[t] EXCEPT !.nest = @ + 1]>> \o @]
    /\ fr' = [fr EXCEPT ![t] = [EmptyFrame EXCEPT !.args = a]]
    /\ Goto(t, "enter")
    /\ UNCHANGED <<lvars, bounded, maxsize, nthr, data, hits, misses, lock,
                   obj, recency, fifo, ninv, nret>>

\* the call made from inside user_function has returned or raised:
\* user_function goes on
Resume(t) ==
    /\ pc[t] = "idle"
    /\ stack[t] # <<>>
    /\ fr' = [fr EXCEPT ![t] = Head(stack[t])]
    /\ stack' = [stack EXCEPT ![t] = Tail(@)]
    /\ Goto(t, "compute")
    /\ UNCHANGED <<lvars, bounded, maxsize, nthr, data, hits, misses, lock,
                   obj, recency, fifo, ninv, nret>>

\* line 155: user_function raises, or returns and the wrapper reaches
\* `with lock` of line 156
UserReturn(t) ==
    /\ pc[t] = "compute"
    /\ \/ /\ fr' = [fr EXCEPT ![t].res = Result(t)]
          /\ Goto(t, "acquire")
       \/ Return(t, fr[t], "raise")
    /\ UNCHANGED <<lvars, stack, bounded, maxsize, nthr, data, hits, misses,
                   lock, obj, recency, fifo, ninv, nret>>

\* lines 165-166 and 170-171: cache_info() and cache_clear() reach
\* `with lock`
InfoEnter(t) ==
    /\ t <= nthr
    /\ pc[t] = "idle"
    /\ stack[t] = <<>>
    /\ Goto(t, "info_enter")
    /\ UNCHANGED <<lvars, stack, bounded, maxsize, nthr, data, hits, misses,
                   lock, fr, obj, recency, fifo, ninv, nret>>

ClearEnter(t) ==
    /\ t <= nthr
    /\ pc[t] = "idle"
    /\ stack[t] = <<>>
    /\ Goto(t, "clear_enter")
    /\ UNCHANGED <<lvars, stack, bounded, maxsize, nthr, data, hits, misses,
                   lock, fr, obj, recency, fifo, ninv, nret>>

\* lines 147, 156, 166 and 171: `with lock` is entered when the lock is free
Acquire(t) ==
    /\ pc[t] \in DOMAIN Waiting
    /\ lock = Free
    /\ lock' = t
    /\ Goto(t, Waiting[pc[t]])
    /\ UNCHANGED <<lvars, stack, bounded, maxsize, nthr, data, hits, misses,
                   fr, obj, recency, fifo, ninv, nret>>

\* line 172: cache.clear()
Clear(t) ==
    /\ pc[t] = "clear"
    /\ data' = <<>>
    /\ recency' = <<>>
    /\ fifo' = <<>>
    /\ ninv' = Zero
    /\ nret' = Zero
    /\ Goto(t, "reset")
    /\ UNCHANGED <<lvars, stack, bounded, maxsize, nthr, hits, misses, lock,
                   fr, obj>>

InitLive ==
    /\ bounded = TRUE
    /\ maxsize = 1
    /\ nthr = NThreads
    /\ WrapperStart
    /\ lkind = "lazyval"
    /\ LazyStart

NextLive ==
    \/ \E t \in Threads : \E a \in LiveArgs : Enter(t, a)
    \/ \E t \in Threads : \E a \in LiveArgs : Recurse(t, a)
    \/ \E t \in Threads : Resume(t)
    \/ \E t \in Threads : UserReturn(t)
    \/ \E t \in Threads : InfoEnter(t)
    \/ \E t \in Threads : ClearEnter(t)
    \/ \E t \in Threads : Acquire(t)
    \/ \E t \in Threads : Clear(t)
    \/ \E t \in Threads : GetItem(t)
    \/ \E t \in Threads : Renew(t)
    \/ \E t \in Threads : Hit(t)
    \/ \E t \in Threads : Insert(t)
    \/ \E t \in Threads : Miss(t)
    \/ \E t \in Threads : Check(t)
    \/ \E t \in Threads : Evict(t)
    \/ \E t \in Threads : InfoRead(t)
    \/ \E t \in Threads : InfoReturn(t)
    \/ \E t \in Threads : ClearReset(t)

\* the steps of a thread that wait for nothing
Progress(t) ==
    \/ Resume(t) \/ UserReturn(t) \/ Clear(t)
    \/ GetItem(t) \/ Renew(t) \/ Hit(t) \/ Insert(t) \/ Miss(t)
    \/ Check(t) \/ Evict(t)
    \/ InfoRead(t) \/ InfoReturn(t) \/ ClearReset(t)

\* fair scheduling: a thread that can run does, and a thread waiting for a
\* lock that is free again and again gets it
Fairness ==
    \A t \in Threads : WF_vars(Progress(t)) /\ SF_vars(Acquire(t))

SpecLive == InitLive /\ [][NextLive]_vars /\ Fairness

\* =========================================================== the claims

\* ============================================================ claims
KeyOf(a) == WeakKey(MakeKey(a))

\* the pcs at which a thread reads or writes the cache, the counters
LockedPcs == {"get", "renew", "hit", "set", "miss", "check", "evict",
              "info", "info_ret", "reset"}

\* ---------------------------------------------------------------- C1
\* C1: in a bounded wrapper, whatever the interleaving of calls, clears and
\* deaths, at most maxsize entries are stored whenever the lock is free, and
\* every tuple cache_info returns has currsize <= maxsize.
C1_SizeBound ==
    bounded =>
        /\ (lock = Free => Len(data) <= maxsize)
        /\ \A t \in Threads : pc[t] = "info_ret" => fr[t].snap[3] <= maxsize

\* several threads have missed more often than maxsize and cache_info reads
\* a full cache
C1_Witness ==
    /\ bounded
    /\ nthr > 1
    /\ \E t \in Threads :
          /\ pc[t] = "info_ret"
          /\ fr[t].snap[3] = maxsize
          /\ fr[t].snap[2] > maxsize

\* ---------------------------------------------------------------- C2
\* C2: in a bounded wrapper used by one thread, a miss that makes the entry
\* count exceed maxsize evicts exactly one entry, the one whose last access
\* (insert or latest hit) is the oldest; a miss that does not, evicts none.
C2_EvictsLeastRecent ==
    (bounded /\ nthr = 1) =>
        /\ pc[1] = "evict" => Len(data) <= maxsize + 1
        /\ (pc[1] = "ret" /\ fr[1].out = "miss") =>
              /\ Len(data) <= maxsize
              /\ fr[1].evn <= 1
              /\ (fr[1].evn = 1) = (fr[1].evk # <<>>)
              /\ fr[1].evk # <<>> =>
                    /\ fr[1].evk = fr[1].lru
                    /\ Find(data, fr[1].evk) = 0

\* maxsize = 2: f(p1), f(p2), f(p1), then a third key: the entry of p2 is
\* evicted, not the first one inserted, and the entry of p1 stays
C2_Witness ==
    /\ bounded
    /\ nthr = 1
    /\ maxsize = 2
    /\ pc[1] = "ret"
    /\ fr[1].out = "miss"
    /\ hits = 1
    /\ misses = 3
    /\ fr[1].evk = KeyOf("a2")
    /\ fr[1].first = KeyOf("a1")
    /\ Find(data, KeyOf("a1")) # 0

\* ---------------------------------------------------------------- C3
\* C3: one thread, no death during the call: a call that returns and whose
\* key was stored adds 1 to hits, leaves misses, does not invoke
\* user_function and returns the stored result; one whose key was not stored
\* adds 1 to misses, leaves hits and invokes user_function once.
C3_HitMissAccounting ==
    (nthr = 1 /\ pc[1] = "ret" /\ fr[1].out \in {"hit", "miss"} /\ ~fr[1].died) =>
            IF fr[1].stored0
            THEN /\ fr[1].out = "hit"
                 /\ hits = fr[1].h0 + 1
                 /\ misses = fr[1].m0
                 /\ fr[1].inv = 0
                 /\ fr[1].res = fr[1].val0
            ELSE /\ fr[1].out = "miss"
                 /\ misses = fr[1].m0 + 1
                 /\ hits = fr[1].h0
                 /\ fr[1].inv = 1

\* a hit that follows a miss and a hit
C3_Witness ==
    /\ nthr = 1
    /\ pc[1] = "ret"
    /\ fr[1].out = "hit"
    /\ fr[1].stored0
    /\ fr[1].val0 = Result(1)
    /\ fr[1].h0 = 1
    /\ fr[1].m0 = 1

\* ---------------------------------------------------------------- C4
\* C4 as stated: unbounded wrapper, one thread, no clear and no death:
\* user_function is invoked at most once per argument set.
C4_InvokedOnce ==
    (~bounded /\ nthr = 1) => \A a \in ArgNames : ninv[a] <= 1

\* C4: unbounded wrapper, one thread, no clear and no death: user_function
\* returns normally at most once per argument set, however the argument
\* sets repeat (an invocation that raises stores nothing and is repeated).
C4_ReturnsOnce ==
    (~bounded /\ nthr = 1) => \A a \in ArgNames : nret[a] <= 1

\* an argument set is repeated after another one came between
C4_Witness ==
    /\ ~bounded
    /\ pc[1] = "ret"
    /\ fr[1].out = "hit"
    /\ fr[1].args = "a1"
    /\ nret["a1"] = 1
    /\ nret["a2"] = 1
    /\ Len(data) = 2

\* ---------------------------------------------------------------- C5
\* the step of thread t in which user_function raises
RaiseStep(t) == pc[t] = "compute" /\ pc'[t] \in {"ret", "idle"}

\* C5: when user_function raises, the exception leaves the wrapper, the step
\* stores no entry and changes neither hits nor misses, and (one thread) the
\* call has invoked user_function once, has left both counters as they were
\* and its key is not stored, so that the next call with it invokes again.
C5_RaiseCachesNothing ==
    /\ []((nthr = 1 /\ pc[1] = "ret" /\ fr[1].out = "raise") =>
                /\ fr[1].inv = 1
                /\ hits = fr[1].h0
                /\ misses = fr[1].m0
                /\ ~Stored(KeyOf(fr[1].args)))
    /\ [][\A t \in Threads : RaiseStep(t) =>
            /\ data' = data
            /\ hits' = hits
            /\ misses' = misses
            /\ lock' = lock]_vars

\* a call raises after another call has stored an entry
C5_Witness ==
    /\ nthr = 1
    /\ pc[1] = "ret"
    /\ fr[1].out = "raise"
    /\ fr[1].m0 = 1
    /\ Len(data) = 1

\* ---------------------------------------------------------------- C6
\* C6: cache_clear of a bounded wrapper is atomic: the state between the
\* removal of the entries and the reset of the counters is held under the
\* lock, no cache_info and no lookup, insert or eviction happens in it, and
\* the reset leaves hits = misses = 0 and no entry, so that every key is
\* missing.
C6_ClearAtomic ==
    /\ [](bounded =>
            \A t \in Threads :
                /\ pc[t] = "reset" => (lock = t /\ data = <<>>)
                /\ pc[t] = "info_ret" => ~fr[t].mid
                /\ pc[t] \in LockedPcs \ {"reset"} => ~MidClear)
    /\ [][bounded =>
            \A t \in Threads : (pc[t] = "reset" /\ pc'[t] = "idle") =>
                /\ hits' = 0
                /\ misses' = 0
                /\ data' = <<>>
                /\ \A a \in ArgNames : FindIn(data', KeyOf(a), obj') = 0]_vars

\* a thread has removed the entries and not yet reset the counters, while
\* another thread is computing
C6_Witness ==
    /\ bounded
    /\ \E t, s \in Threads :
          /\ pc[t] = "reset"
          /\ pc[s] = "compute"
          /\ misses > 0
          /\ data = <<>>

\* ---------------------------------------------------------------- C7
\* C7: in the bounded wrapper no thread holds the lock while it executes
\* user_function, and the thread that looks up, inserts, renews, evicts,
\* counts, reads cache_info or clears holds the lock.
C7_LockDiscipline ==
    bounded =>
        \A t \in Threads :
            /\ pc[t] = "compute" => lock # t
            /\ pc[t] \in LockedPcs => lock = t

\* a thread executes user_function while another one holds the lock
C7_Witness ==
    /\ bounded
    /\ \E t, s \in Threads :
          /\ t # s
          /\ pc[t] = "compute"
          /\ pc[s] \in LockedPcs
          /\ lock = s

\* ---------------------------------------------------------------- C8
\* C8: in the bounded wrapper the step in which a thread inserts its result
\* leaves exactly one entry stored for its key, valued with its own result,
\* also when another thread that missed on the same key has inserted first
\* (the entry count is then unchanged); the step that follows counts its
\* miss all the same.
C8_LastWriterWins ==
    [][bounded =>
        \A t \in Threads :
            /\ (pc[t] = "set" /\ pc'[t] = "miss") =>
                  /\ Cardinality({i \in 1..Len(data') :
                        KeyEq(data'[i].key, KeyOf(fr[t].args), obj')}) = 1
                  /\ data'[FindIn(data', KeyOf(fr[t].args), obj')].value = fr[t].res
                  /\ Len(data') = IF Find(data, KeyOf(fr[t].args)) = 0
                                  THEN Len(data) + 1 ELSE Len(data)
            /\ (pc[t] = "miss" /\ pc'[t] = "check") =>
                  /\ misses' = misses + 1
                  /\ data' = data]_vars

\* two threads missed on the same key; the second one to insert has replaced
\* the result of the first, and both misses are counted
C8_Witness ==
    /\ bounded
    /\ \E t \in Threads :
          /\ pc[t] = "check"
          /\ fr[t].repl
          /\ fr[t].old # fr[t].res
          /\ data[Find(data, KeyOf(fr[t].args))].value = fr[t].res
          /\ Len(data) = 1
          /\ misses = 2

\* ---------------------------------------------------------------- C9
\* C9: the step in which an object o becomes unreachable removes every entry
\* whose key has a weak piece on o, whether or not the other referents of
\* the key live, and no other entry: currsize drops by one for each, and a
\* key equal to a removed one is missing afterwards.
C9_DeathRemovesEntry ==
    [][\A o \in Objects : (obj[o] = "dropped" /\ obj'[o] = "dead") =>
          LET gone == {i \in 1..Len(data) : HasRef(data[i].key, o)}
          IN  /\ data' = SelectSeq(data, LAMBDA e : ~HasRef(e.key, o))
              /\ Len(data') = Len(data) - Cardinality(gone)
              /\ \A i \in gone : \A a \in ArgNames :
                    KeyEq(data[i].key, KeyOf(a), obj)
                        => FindIn(data', KeyOf(a), obj') = 0
              /\ hits' = hits
              /\ misses' = misses]_vars

\* cache_info has read one entry under the lock; o1 died since and the
\* entry is gone, while o2 lives
C9_Witness ==
    /\ \E t \in Threads :
          /\ pc[t] = "info_ret"
          /\ fr[t].snap[3] = 1
    /\ Len(data) = 0
    /\ obj["o1"] = "dead"
    /\ obj["o2"] = "live"

\* --------------------------------------------------------------- C10
\* C10: no stored key keeps an argument object alive: an object that the
\* program outside has let go of and that no call holds is not held by a
\* piece of a stored key other than a weak reference.
C10_ArgsNotKeptAlive ==
    \A o \in Objects :
        (obj[o] = "dropped" /\ ~Held(o)) =>
            \A i \in 1..Len(data) : \A j \in 1..Len(data[i].key) :
                data[i].key[j].val = o => data[i].key[j].kind = "ref"

\* --------------------------------------------------------------- C11
\* C11: a lazyval read by one thread: the value a read of an instance
\* returns was computed by the accessor on that very instance (two distinct
\* instances are computed independently, each caching its own value).
C11_Independent ==
    (lkind = "lazyval" /\ nthr = 1) =>
        \A t \in Threads :
            (lpc[t] = "l_ret" /\ lfr[t].op = "get" /\ lfr[t].out = "value")
                => lfr[t].val[1] = lfr[t].owner

\* --------------------------------------------------------------- C12
\* the step in which thread t assigns to the attribute
AssignStep(t) == lpc[t] = "idle" /\ lpc'[t] = "l_ret" /\ lfr'[t].op = "set"

\* C12: an assignment to the attribute of an instance raises AttributeError
\* whether or not the value is computed, invokes no accessor and leaves the
\* cache as it is; no entry and no read ever has the assigned value.
C12_ReadOnly ==
    /\ [](/\ \A e \in lcache : e.value # Assigned
          /\ \A t \in Threads :
                (lpc[t] = "l_ret" /\ lfr[t].op = "get") => lfr[t].val # Assigned)
    /\ [][\A t \in Threads : AssignStep(t) =>
            /\ lfr'[t].out = "attributeerror"
            /\ lcache' = lcache
            /\ lcount' = lcount
            /\ lret' = lret]_vars

\* an assignment to an instance whose value is cached has failed
C12_Witness ==
    \E t \in Threads :
        /\ lpc[t] = "l_ret"
        /\ lfr[t].op = "set"
        /\ lfr[t].out = "attributeerror"
        /\ \E e \in lcache : e.key = lfr[t].key /\ e.value = LResult(e.key, 1)

\* --------------------------------------------------------------- C13
\* C13: an invalidation that succeeds has removed the entry of that very
\* owner: for an owner that was never read, or is already invalidated, it
\* fails with KeyError.
C13_RemovesOwnEntry ==
    nthr = 1 =>
        \A t \in Threads :
            (lpc[t] = "l_ret" /\ lfr[t].op = "del" /\ lfr[t].out = "deleted")
                => lfr[t].rem = lfr[t].owner

\* --------------------------------------------------------------- C14
\* the class a classlazyval is read through by x
ReadClass(x) == IF x \in Classes THEN x ELSE ClassOf[x]

\* C14: a classlazyval read by one thread: the cache is keyed by classes
\* only, one entry a class; the accessor is never invoked with an instance
\* and returns at most once a class; the value a read returns was computed
\* for the class it is read through (the class itself or the class of the
\* instance), so that a subclass has its own; a read goes on to invoke the
\* accessor exactly when that class has no entry.
C14_KeyedByClass ==
    /\ []((lkind = "classlazyval" /\ nthr = 1) =>
            /\ \A e \in lcache : e.key \in Classes
            /\ \A e1, e2 \in lcache : e1.key = e2.key => e1 = e2
            /\ \A x \in Instances : lcount[x] = 0
            /\ \A c \in Classes : lret[c] <= 1
            /\ \A t \in Threads :
                  (lpc[t] = "l_ret" /\ lfr[t].op = "get"
                                    /\ lfr[t].out = "value") =>
                      /\ lfr[t].val[1] = ReadClass(lfr[t].owner)
                      /\ \E e \in lcache :
                            /\ e.key = ReadClass(lfr[t].owner)
                            /\ e.value = lfr[t].val)
    /\ [][(lkind = "classlazyval" /\ nthr = 1) =>
            \A t \in Threads :
                (lpc[t] = "idle" /\ lpc'[t] # "idle" /\ lfr'[t].op = "get") =>
                    (lpc'[t] = "l_compute") =
                        (\A e \in lcache : e.key # ReadClass(lfr'[t].owner))]_vars

\* an instance of C reads the value its class has cached, after the subclass
\* D has computed its own
C14_Witness ==
    /\ lkind = "classlazyval"
    /\ nthr = 1
    /\ lpc[1] = "l_ret"
    /\ lfr[1].owner = "i2"
    /\ lfr[1].out = "value"
    /\ lfr[1].inv = 0
    /\ lfr[1].val = LResult("C", 1)
    /\ \E e \in lcache : e.key = "D" /\ e.value = LResult("D", 1)
    /\ lret["C"] = 1
    /\ lret["D"] = 1

\* --------------------------------------------------------------- C15
\* line 250: remember_last = weak_lru_cache(1)
remember_last == bounded /\ maxsize = 1

\* C15: remember_last used by one thread, no death during the call: after a
\* call that returns the cache holds one entry, keyed by that call's
\* arguments, and the call was a hit exactly when its key equals the key of
\* the last call that returned before it (none since a clear: a miss).
C15_RemembersLast ==
    (remember_last /\ nthr = 1 /\ pc[1] = "ret"
                   /\ fr[1].out \in {"hit", "miss"} /\ ~fr[1].died) =>
        /\ Len(data) = 1
        /\ data[1].key = KeyOf(fr[1].args)
        /\ (fr[1].out = "hit") =
              (fr[1].last0 # <<>> /\ KeyEq(fr[1].last0, KeyOf(fr[1].args), obj))

\* f(p1), f(p1), f(p2): the entry of p1 has made place for the one of p2
C15_Witness ==
    /\ remember_last
    /\ nthr = 1
    /\ pc[1] = "ret"
    /\ fr[1].out = "miss"
    /\ fr[1].args = "a2"
    /\ fr[1].last0 = KeyOf("a1")
    /\ hits = 1
    /\ misses = 2
    /\ Len(data) = 1

\* --------------------------------------------------------------- C16
\* the call of thread t has an unhashable argument
Unhashed(t) ==
    /\ fr[t].args # None
    /\ \E i \in 1..Len(ArgSets[fr[t].args].pos) :
          ArgSets[fr[t].args].pos[i] \in Unhashable

\* C16: the lookup of a call with an unhashable argument raises TypeError:
\* the call ends there, user_function is not invoked, no entry is stored,
\* hits and misses stay, and the bounded wrapper's lock, held for the
\* lookup, is free afterwards.
C16_UnhashableRaises ==
    [][\A t \in Threads :
          (pc[t] \in {"get", "u_get"} /\ Unhashed(t) /\ pc'[t] # pc[t]) =>
              /\ pc'[t] \in {"ret", "idle"}
              /\ nthr = 1 => (fr'[t].out = "typeerror" /\ fr'[t].inv = 0)
              /\ data' = data
              /\ hits' = hits
              /\ misses' = misses
              /\ ninv' = ninv
              /\ bounded => (lock = t /\ lock' = Free)]_vars

\* a call of the bounded wrapper has raised TypeError with an entry stored
\* and a miss counted before it, and the lock is free
C16_Witness ==
    /\ bounded
    /\ nthr = 1
    /\ pc[1] = "ret"
    /\ fr[1].out = "typeerror"
    /\ fr[1].inv = 0
    /\ lock = Free
    /\ misses = 1
    /\ Len(data) = 1

\* --------------------------------------------------------------- C17
\* C17: a weakly held piece is compared by the identity of its referent: a
\* call is a hit only on a stored key whose pieces are those of its own key
\* (a live object distinct from the stored one is a miss, though equal).
C17_IdentityOnly ==
    (nthr = 1 /\ pc[1] = "ret" /\ fr[1].out = "hit") =>
        fr[1].key0 = KeyOf(fr[1].args)

\* --------------------------------------------------------------- C18
\* C18: in a bounded wrapper, when the insert of a miss completes the
\* inserted key is at the most recent end of the order, also when another
\* thread that missed on it has inserted it first.
C18_InsertIsMostRecent ==
    [][bounded =>
        \A t \in Threads : (pc[t] = "set" /\ pc'[t] = "miss") =>
            KeyEq(data'[Len(data')].key, KeyOf(fr[t].args), obj')]_vars

\* --------------------------------------------------------------- C19
\* the step in which thread t reads an attribute that is cached
CachedReadStep(t) ==
    /\ lpc[t] = "idle"
    /\ lpc'[t] = "l_ret"
    /\ lfr'[t].op = "get"
    /\ lfr'[t].out = "value"

\* C19: with no lock, a thread that found no entry invokes the accessor,
\* stores its value and returns it, also when another thread has stored
\* one for the same owner meanwhile: the store leaves exactly one entry for
\* the owner, holding the value written last, and raises nothing; a read
\* that finds the entry returns its value and invokes no accessor.
C19_LastWriteWins ==
    /\ [](\A e1, e2 \in lcache : LKeyEq(e1.key, e2.key, lobj) => e1 = e2)
    /\ [][\A t \in Threads :
            /\ (lpc[t] = "l_set" /\ lpc'[t] = "l_ret") =>
                  /\ lfr[t].val = LResult(lfr[t].key, t)
                  /\ lfr'[t].out = "value"
                  /\ lfr'[t].val = lfr[t].val
                  /\ Cardinality(LFind(lcache', lfr[t].key, lobj')) = 1
                  /\ \A e \in LFind(lcache', lfr[t].key, lobj') :
                        e.value = lfr[t].val
                  /\ Cardinality(lcache') =
                        IF LFind(lcache, lfr[t].key, lobj) = {}
                        THEN Cardinality(lcache) + 1 ELSE Cardinality(lcache)
            /\ CachedReadStep(t) =>
                  /\ \E e \in LFind(lcache, lfr'[t].key, lobj) :
                        e.value = lfr'[t].val
                  /\ lcache' = lcache
                  /\ lcount' = lcount]_vars

\* two threads made the first read of one owner together: each has its own
\* value, the one stored is the one written last
C19_Witness ==
    /\ nthr = 2
    /\ lpc[1] = "l_ret"
    /\ lpc[2] = "l_ret"
    /\ lfr[1].key = lfr[2].key
    /\ lfr[1].out = "value"
    /\ lfr[2].out = "value"
    /\ lfr[1].val = LResult(lfr[1].key, 1)
    /\ lfr[2].val = LResult(lfr[2].key, 2)
    /\ lfr[1].repl
    /\ lcache = {[key |-> lfr[1].key, value |-> lfr[1].val]}

\* --------------------------------------------------------------- C20
\* a thread inside a `with lock` block
Inside(t) == pc[t] \in LockedPcs \cup {"clear"}

\* a thread has no operation of the wrapper under way
Quiet(t) == pc[t] = "idle" /\ stack[t] = <<>>

====
